---------------------------- MODULE Spec2Model ----------------------------
(***************************************************************************)
(* A model of the run-generation and result-ingestion scripts of the       *)
(* fixed-wing-drone-orienteering repository:                               *)
(*   python-scripts/script_generator.py  (case discovery, run-file         *)
(*                                        generation, run-package staging) *)
(*   python-scripts/update_db.py         (ingestion of result documents    *)
(*                                        into an SQLite table)            *)
(*                                                                         *)
(* Text (file names, paths, command-line tokens, stored values) is         *)
(* modelled as a sequence of one-character strings, so that formatting,    *)
(* splitting and parsing are computed the way the Python code computes     *)
(* them.                                                                   *)
(***************************************************************************)
EXTENDS Integers, Sequences, FiniteSets, TLC

(***************************************************************************)
(* Text helpers (Python str operations)                                    *)
(***************************************************************************)

Digits == <<"0", "1", "2", "3", "4", "5", "6", "7", "8", "9">>

IsDigit(c) == \E d \in 1..10 : Digits[d] = c

DigitVal(c) == (CHOOSE d \in 1..10 : Digits[d] = c) - 1

\* str(n) / "{}".format(n) of a non-negative int: its decimal digits.
RECURSIVE IntToStr(_)
IntToStr(n) ==
    IF n < 10 THEN <<Digits[n + 1]>>
    ELSE IntToStr(n \div 10) \o <<Digits[(n % 10) + 1]>>

\* A mis-formatting of an int: its last decimal digit only.
IntToStrLastDigit(n) == <<Digits[(n % 10) + 1]>>

IsNumeral(s) == Len(s) > 0 /\ \A i \in 1..Len(s) : IsDigit(s[i])

\* int(s) of a string of decimal digits.
RECURSIVE StrToInt(_)
StrToInt(s) ==
    IF Len(s) = 0 THEN 0
    ELSE 10 * StrToInt(SubSeq(s, 1, Len(s) - 1)) + DigitVal(s[Len(s)])

\* s.endswith(suf)
EndsWith(s, suf) ==
    /\ Len(s) >= Len(suf)
    /\ SubSeq(s, Len(s) - Len(suf) + 1, Len(s)) = suf

\* s.startswith(pre), tested at position i (1-based)
MatchAt(s, i, sub) ==
    /\ i + Len(sub) - 1 <= Len(s)
    /\ SubSeq(s, i, i + Len(sub) - 1) = sub

\* sub in s
Contains(s, sub) == \E i \in 1..(Len(s) + 1) : MatchAt(s, i, sub)

\* s.replace(old, new): every non-overlapping occurrence, left to right.
RECURSIVE Replace(_, _, _)
Replace(s, old, new) ==
    IF Len(s) = 0 THEN <<>>
    ELSE IF MatchAt(s, 1, old)
         THEN new \o Replace(SubSeq(s, Len(old) + 1, Len(s)), old, new)
         ELSE <<s[1]>> \o Replace(Tail(s), old, new)

\* s.split(c) for a one-character separator c: the pieces between
\* separators, computed by halving s (the piece cut by the halving is joined
\* again).
RECURSIVE Split(_, _)
Split(s, c) ==
    IF Len(s) = 0 THEN << <<>> >>
    ELSE IF Len(s) = 1 THEN (IF s[1] = c THEN << <<>>, <<>> >> ELSE <<s>>)
    ELSE LET h == Len(s) \div 2
             a == Split(SubSeq(s, 1, h), c)
             b == Split(SubSeq(s, h + 1, Len(s)), c)
         IN  SubSeq(a, 1, Len(a) - 1) \o <<a[Len(a)] \o b[1]>> \o Tail(b)

\* os.path.basename(p): what follows the last "/".
Basename(p) == LET parts == Split(p, "/") IN parts[Len(parts)]

\* s[:-1]
DropLast(s) == IF Len(s) = 0 THEN <<>> ELSE SubSeq(s, 1, Len(s) - 1)

\* The elements of a sequence.
Range(s) == {s[i] : i \in 1..Len(s)}

\* The sequences of at most n distinct elements of S, in every order.
RECURSIVE DistinctSeqs(_, _)
DistinctSeqs(S, n) ==
    IF n = 0 THEN {<<>>}
    ELSE LET shorter == DistinctSeqs(S, n - 1)
         IN  shorter \cup
             {Append(q, x) : <<q, x>> \in
                 {qx \in shorter \X S : qx[2] \notin Range(qx[1])}}

\* The sequences of at most n elements of S, repetitions allowed.
RECURSIVE SeqsUpTo(_, _)
SeqsUpTo(S, n) ==
    IF n = 0 THEN {<<>>}
    ELSE LET shorter == SeqsUpTo(S, n - 1)
         IN  shorter \cup {Append(q, x) : <<q, x>> \in shorter \X S}

\* The orderings of a finite set.
Perms(S) == {q \in DistinctSeqs(S, Cardinality(S)) : Len(q) = Cardinality(S)}


(***************************************************************************)
(* update_db.py: documents, SQL text and the SQLite store                  *)
(***************************************************************************)

\* A YAML scalar as yaml.load returns it: a str, an int or a bool.
YStr(s) == [t |-> "str", s |-> s, n |-> 0, b |-> FALSE]
YInt(n) == [t |-> "int", s |-> <<>>, n |-> n, b |-> FALSE]
YBool(b) == [t |-> "bool", s |-> <<>>, n |-> 0, b |-> b]

\* str(v), as the f-string f"'{v}'" formats a value.
PyStr(v) ==
    CASE v.t = "int" -> IntToStr(v.n)
      [] v.t = "bool" -> IF v.b THEN <<"T", "r", "u", "e">>
                                ELSE <<"F", "a", "l", "s", "e">>
      [] OTHER -> v.s

\* Python's order on the column names that occur ("bfb" < "cost" < ...).
NameOrder == <<"bfb", "cost", "result_id", "status", "time">>

NameRank(k) == CHOOSE i \in 1..Len(NameOrder) : NameOrder[i] = k

\* list.sort() of a list of distinct names.
SortedNames(S) ==
    CHOOSE q \in Perms(S) :
        \A i \in 1..(Len(q) - 1) : NameRank(q[i]) < NameRank(q[i + 1])

\* ",".join(items)
RECURSIVE JoinComma(_)
JoinComma(items) ==
    IF Len(items) = 0 THEN <<>>
    ELSE IF Len(items) = 1 THEN items[1]
    ELSE items[1] \o <<",">> \o JoinComma(Tail(items))

\* f"'{v}'"
Quoted(text) == <<"'">> \o text \o <<"'">>

SqlError == [ok |-> FALSE, vals |-> <<>>]

\* SQLite reading a string literal whose opening quote has been consumed:
\* '' is an escaped quote, a single ' ends the literal.
RECURSIVE SqlScanString(_, _)
SqlScanString(s, acc) ==
    IF Len(s) = 0 THEN [ok |-> FALSE, val |-> acc, rest |-> <<>>]
    ELSE IF s[1] = "'"
         THEN IF Len(s) >= 2 /\ s[2] = "'"
              THEN SqlScanString(SubSeq(s, 3, Len(s)), Append(acc, "'"))
              ELSE [ok |-> TRUE, val |-> acc, rest |-> Tail(s)]
         ELSE SqlScanString(Tail(s), Append(acc, s[1]))

\* SQLite reading an integer literal.
RECURSIVE SqlScanNumber(_, _)
SqlScanNumber(s, acc) ==
    IF Len(s) > 0 /\ IsDigit(s[1])
    THEN SqlScanNumber(Tail(s), Append(acc, s[1]))
    ELSE [ok |-> Len(acc) > 0, val |-> acc, rest |-> s]

\* SQLite parsing the expression list of VALUES (...): literals separated by
\* commas.  Anything else (a bare word such as None, a stray character after
\* a literal, an empty list) is an error of the statement.
RECURSIVE SqlParseValues(_)
SqlParseValues(s) ==
    IF Len(s) = 0 THEN SqlError
    ELSE LET lit == IF s[1] = "'" THEN SqlScanString(Tail(s), <<>>)
                    ELSE SqlScanNumber(s, <<>>)
         IN  IF ~lit.ok THEN SqlError
             ELSE IF Len(lit.rest) = 0 THEN [ok |-> TRUE, vals |-> <<lit.val>>]
             ELSE IF lit.rest[1] # "," THEN SqlError
             ELSE LET more == SqlParseValues(Tail(lit.rest))
                  IN  IF more.ok
                      THEN [ok |-> TRUE, vals |-> <<lit.val>> \o more.vals]
                      ELSE SqlError

NoTable == [exists |-> FALSE, cols |-> <<>>, rows |-> <<>>]

\* SELECT count(name) FROM sqlite_master WHERE type='table' AND name=...
table_exists(db, name) == db[name].exists

\* A creation that replaces an existing table.
create_table_always(db, name, fields) ==
    [db EXCEPT ![name] = [exists |-> TRUE, cols |-> fields, rows |-> <<>>]]

\* create_table: CREATE TABLE name (fields) unless the table exists.
create_table(db, name, fields) ==
    IF ~table_exists(db, name)
    THEN [db EXCEPT ![name] = [exists |-> TRUE, cols |-> fields, rows |-> <<>>]]
    ELSE db

\* cursor.execute("INSERT INTO name VALUES (text)"): SQLite rejects the
\* statement when it does not parse, when the table is missing or when the
\* number of values is not the number of columns; otherwise the values are
\* stored by position.  src is the document the row was built from (kept
\* beside the row to state the properties; SQLite does not store it).
SqlInsert(db, name, text, src) ==
    LET parsed == SqlParseValues(text)
    IN  IF parsed.ok /\ db[name].exists /\ Len(parsed.vals) = Len(db[name].cols)
        THEN [ok |-> TRUE,
              db |-> [db EXCEPT ![name].rows =
                         Append(@, [vals |-> parsed.vals, src |-> src])]]
        ELSE [ok |-> FALSE, db |-> db]


(***************************************************************************)
(* script_generator.py: command lines                                      *)
(***************************************************************************)

\* ' '.join(cmd)
RECURSIVE JoinSpace(_)
JoinSpace(items) ==
    IF Len(items) = 0 THEN <<>>
    ELSE IF Len(items) = 1 THEN items[1]
    ELSE items[1] \o <<" ">> \o JoinSpace(Tail(items))

\* line.strip().split() of a line whose only whitespace is single spaces
\* between tokens: the non-empty pieces between spaces.
SplitWords(line) == SelectSeq(Split(line, " "), LAMBDA w : Len(w) > 0)

\* Controller._base_cmd, with config.cplex_lib_path = "/c".
base_cmd ==
    << <<"j", "a", "v", "a">>,
       <<"-", "X", "m", "s", "3", "2", "m">>,
       <<"-", "X", "m", "x", "3", "2", "g">>,
       <<"-", "D", "j", "a", "v", "a", ".", "l", "i", "b", "r", "a", "r", "y", ".", "p", "a", "t", "h", "=", "/", "c">>,
       <<"-", "j", "a", "r">>,
       <<".", "/", "u", "b", "e", "r", ".", "j", "a", "r">> >>

FlagN == <<"-", "n">>
FlagP == <<"-", "p">>
FlagO == <<"-", "o">>
FlagD == <<"-", "d">>
FlagI == <<"-", "i">>
FlagS == <<"-", "s">>
FlagB == <<"-", "b">>
FlagRd == <<"-", "r", "d">>

DataPrefix == <<".", "/", "d", "a", "t", "a", "/">>
YamlSuffix == <<".", "y", "a", "m", "l">>
TxtSuffix == <<".", "t", "x", "t">>

\* The results path with the identifier cut to one digit.
ResultsPathOneDigit(counter) ==
    <<".", "/", "r", "e", "s", "u", "l", "t", "s", "/", "r", "e", "s", "u", "l", "t", "s", "_">> \o IntToStrLastDigit(counter) \o YamlSuffix

\* "results_{}.yaml".format(counter), joined to "results" and prefixed "./"
\* (lines 126-129); equally prefix + "_{}.yaml".format(counter) (line 164).
ResultsPath(counter) ==
    <<".", "/", "r", "e", "s", "u", "l", "t", "s", "/", "r", "e", "s", "u", "l", "t", "s", "_">> \o IntToStr(counter) \o YamlSuffix

\* './data/{}/'.format(folder)
FolderPath(folder) == DataPrefix \o folder \o <<"/">>

\* The command of one case in _generate_non_exhaustive_setup (lines 131-138);
\* num_disc is an int there.
NonExhaustiveCmd(case, counter, cmd_args) ==
    base_cmd \o
    << FlagN, case[2],
       FlagP, FolderPath(case[1]),
       FlagO, ResultsPath(counter),
       FlagD, IntToStr(case[3]) >> \o cmd_args

\* The command of one case in _generate_exhaustive_setup before its output
\* argument (lines 156-161); num_disc is a str there.
ExhaustiveCmd(case) ==
    base_cmd \o
    << FlagN, case[2],
       FlagP, FolderPath(case[1]),
       FlagD, case[3],
       FlagI, <<"1">> >>

\* cmd1 of lines 171-173, or cmd of line 164 when addition is empty.
ExhaustiveCmdWithOutput(case, addition, counter) ==
    ExhaustiveCmd(case) \o addition \o <<FlagO, ResultsPath(counter)>>

\* The value that follows flag in a tokenised command (<<>> when absent).
ArgOf(cmd, flag) ==
    IF \E i \in 1..(Len(cmd) - 1) : cmd[i] = flag
    THEN cmd[(CHOOSE i \in 1..(Len(cmd) - 1) :
                 cmd[i] = flag /\ \A j \in 1..(i - 1) : cmd[j] # flag) + 1]
    ELSE <<>>


(***************************************************************************)
(* update_db.py: the inputs of an ingestion run                            *)
(***************************************************************************)

MaxRuns == 2     \* ingestion runs in one behaviour
MaxFiles == 2    \* files in the results folder of one run

result_id_col == "result_id"

\* config.table_name: the default of the command line and one other name.
TableNames == {"bangforbuck", "search_comparison"}

\* self.config.table_name + "_args"
ArgsTableName(t) == IF t = "bangforbuck" THEN "bangforbuck_args"
                    ELSE "search_comparison_args"

AllTables == TableNames \cup {ArgsTableName(t) : t \in TableNames}

\* Result documents (yaml.load of a result file): flat key -> scalar maps.
DocTrue12 == ("status" :> YBool(TRUE) @@ "time" :> YInt(12))
DocFalse4 == ("status" :> YBool(FALSE) @@ "time" :> YInt(4))
DocNoStatus == ("time" :> YInt(7))
DocCostForStatus == ("cost" :> YInt(9) @@ "time" :> YInt(1))
DocExtraCost ==
    ("cost" :> YInt(5) @@ "status" :> YBool(TRUE) @@ "time" :> YInt(2))
DocQuote == ("status" :> YStr(<<"c", "a", "n", "'", "t">>) @@ "time" :> YInt(3))

Docs == {DocTrue12, DocFalse4, DocNoStatus, DocCostForStatus, DocExtraCost,
         DocQuote}

\* The run ids whose result files occur in a results folder.
ResultIds == {3, 12}

ResultFileName(id) == <<"r", "e", "s", "u", "l", "t", "s", "_">> \o IntToStr(id) \o YamlSuffix

LogFileName == <<"r", "u", "n", ".", "l", "o", "g">>

Files ==
    {[name |-> ResultFileName(i), doc |-> d] : i \in ResultIds, d \in Docs}
    \cup {[name |-> LogFileName, doc |-> DocNoStatus]}

\* os.listdir(results_path): the folder's entries, names distinct, in the
\* order the file system lists them.
Listings ==
    {q \in DistinctSeqs(Files, MaxFiles) :
        \A i, j \in 1..Len(q) : i # j => q[i].name # q[j].name}

\* os.path.join(self.config.results_path, f), results_path = "../results"
ResultPathOf(f) == <<".", ".", "/", "r", "e", "s", "u", "l", "t", "s", "/">> \o f

IsYaml(f) == EndsWith(f.name, YamlSuffix)

\* Lines 132-133: name = basename(fpath).split(".")[0];
\* id = int(name.split("_")[1]).  -1 stands for the IndexError/ValueError of
\* a name without a numeric second token.
RunIdOfPath(fpath) ==
    LET name == Split(Basename(fpath), ".")[1]
        toks == Split(name, "_")
    IN  IF Len(toks) >= 2 /\ IsNumeral(toks[2]) THEN StrToInt(toks[2]) ELSE -1

\* The first entry of the listing that ends in ".yaml" (0: none), lines 77-88.
FirstYamlIndex(L) ==
    IF \E i \in 1..Len(L) : IsYaml(L[i])
    THEN CHOOSE i \in 1..Len(L) :
             IsYaml(L[i]) /\ \A j \in 1..(i - 1) : ~IsYaml(L[j])
    ELSE 0

\* The last such entry.
LastYamlIndex(L) ==
    IF \E i \in 1..Len(L) : IsYaml(L[i])
    THEN CHOOSE i \in 1..Len(L) :
             IsYaml(L[i]) /\ \A j \in (i + 1)..Len(L) : ~IsYaml(L[j])
    ELSE 0

\* Lines 83-84: list(result_dict.keys()) + ["result_id"], sorted.
ColNamesOf(doc) == SortedNames(DOMAIN doc \cup {result_id_col})

\* Lines 135-139: the (key, value) pairs plus (result_id, id), sorted by key,
\* their values formatted f"'{v}'".
RowValues(doc, id) ==
    LET ks == SortedNames(DOMAIN doc \cup {result_id_col})
    IN  [i \in 1..Len(ks) |->
            Quoted(IF ks[i] = result_id_col THEN IntToStr(id)
                   ELSE PyStr(doc[ks[i]]))]

\* Lines 141-143: the text between the parentheses of VALUES (...).
InsertValuesText(doc, id) == JoinComma(RowValues(doc, id))


(***************************************************************************)
(* State                                                                   *)
(***************************************************************************)

VARIABLES
    \* ---- update_db.py
    ipc,          \* position in main()/Controller.run of update_db.py
    runs,         \* ingestion runs started so far
    table_name,   \* config.table_name of the run
    listing,      \* os.listdir(config.results_path) during the run
    store,        \* the database file: table name -> table (committed)
    sess,         \* the tables as the run's connection sees them
    conn,         \* self._connection: "none", "open", "closed", "abandoned"
    idx,          \* position of the loop of lines 93-97 in the listing
    aidx,         \* position of the loop of lines 113-128 in the runs file
    ierr,         \* the exception that ended the run ("none": none)
    startStore,   \* the database file when the run started
    \* ---- script_generator.py
    gpc,          \* position in Controller.run of script_generator.py
    config,       \* the five run-type flags of Config
    dataDir,      \* config.data_path: its folders and their files, as listed
    manifest,     \* the data rows of the csv file at config.instance_file_path
    stage,        \* the run type Controller.run is at (index in RunTypes)
    cases,        \* the case list of the setup under way
    counter,      \* counter of the generation loop
    ci,           \* index in cases of the generation loop
    vi,           \* index in additional_cmds of the inner loop
    scratch,      \* script folder: test name -> its <test>_runs.txt
    pkg,          \* base_path/<test name>: the run package of each run type
    copyList,     \* _get_folder_and_file_names(cases), in the order iterated
    ki,           \* index in copyList of the loop of lines 238-246
    gerr,         \* the exception that ended the generation ("none": none)
    \* ---- batch_runner.py
    bpc,          \* position in Controller.run of batch_runner.py
    bconfig,      \* the five run_*_set flags of Config
    cplex,        \* config.cplex_lib_path: "none", "nodir" or "dir"
    logsDir,      \* the folder logs exists
    bcases,       \* self._cases
    invocations,  \* the solver command lines started so far
    berr,         \* the exception that ended the run ("none": none)
    \* ---- final-results/create_results.py
    qpc,          \* position in the module create_results.py
    qdb,          \* results.db: table name -> rows
    qargs,        \* the arguments of the count query under way
    qtext,        \* the text of the query built last
    qout          \* what the query built last gave (rows, a count, an error)

ivars == <<ipc, runs, table_name, listing, store, sess, conn, idx, aidx, ierr,
           startStore>>

gvars == <<gpc, config, dataDir, manifest, stage, cases, counter, ci, vi,
           scratch, pkg, copyList, ki, gerr>>

bvars == <<bpc, bconfig, cplex, logsDir, bcases, invocations, berr>>

qvars == <<qpc, qdb, qargs, qtext, qout>>

vars == <<ivars, gvars, bvars, qvars>>

\* A runs file: absent, or its lines.  A line is kept as the list cmd of the
\* tokens it was written from; its text in the file is LineText(cmd), which
\* is what a reader of the file gets.
NoFile == [exists |-> FALSE, lines |-> <<>>]

\* f_out.write(' '.join(cmd)): the text of a line.
LineText(cmd) == JoinSpace(cmd)

RunTypes == <<"bangforbuck", "dominance", "simple", "onethread", "exhaustive">>

TestNames == Range(RunTypes)

\* A run package nobody has created yet.
NoPackage ==
    [exists |-> FALSE, jar |-> FALSE, runs |-> NoFile, scripts |-> {},
     dataRoot |-> FALSE, dataDirs |-> {}, data |-> {},
     output |-> FALSE, results |-> FALSE]

(***************************************************************************)
(* update_db.py: main() and Controller.run                                 *)
(***************************************************************************)

\* main() starts: handle_command_line() fixes the table name; the results
\* folder holds some files.
StartRun ==
    /\ ipc = "idle"
    /\ runs < MaxRuns
    /\ \E t \in TableNames, L \in Listings :
          /\ table_name' = t
          /\ listing' = L
    /\ runs' = runs + 1
    /\ ipc' = "connect"
    /\ conn' = "none"
    /\ ierr' = "none"
    /\ idx' = 0
    /\ aidx' = 0
    /\ startStore' = store
    /\ UNCHANGED <<store, sess>>
    /\ UNCHANGED <<gvars, bvars, qvars>>

\* Lines 62-63: sqlite3.connect, connection.cursor().
Connect ==
    /\ ipc = "connect"
    /\ conn' = "open"
    /\ sess' = store
    /\ ipc' = "create"
    /\ UNCHANGED <<runs, table_name, listing, store, idx, aidx, ierr, startStore>>
    /\ UNCHANGED <<gvars, bvars, qvars>>

\* The fields of the last document instead of the first.
FirstLoopFieldsOfLast(L) == ColNamesOf(L[LastYamlIndex(L)].doc)

\* The fields create_table is called with at line 85.
FirstLoopFields(L) == ColNamesOf(L[FirstYamlIndex(L)].doc)

\* The first loop with the check of table_created left out.
CreateFromFirstUnchecked ==
    /\ ipc = "create"
    /\ IF FirstYamlIndex(listing) = 0
       THEN /\ sess' = create_table(sess, table_name, <<result_id_col>>)
            /\ store' = create_table(store, table_name, <<result_id_col>>)
       ELSE /\ sess' = create_table(sess, table_name, FirstLoopFields(listing))
            /\ store' = create_table(store, table_name, FirstLoopFields(listing))
    /\ ipc' = "insert"
    /\ idx' = 1
    /\ UNCHANGED <<ierr, runs, table_name, listing, conn, aidx, startStore>>
    /\ UNCHANGED <<gvars, bvars, qvars>>

\* Lines 76-91: the table is created from the first .yaml file listed; with
\* none, ScriptException("no yaml file found in results folder").  No
\* transaction is open yet, so SQLite applies the CREATE TABLE at once.
CreateFromFirst ==
    /\ ipc = "create"
    /\ IF FirstYamlIndex(listing) = 0
       THEN /\ ierr' = "ScriptException"
            /\ ipc' = "failed"
            /\ UNCHANGED <<sess, store, idx>>
       ELSE /\ sess' = create_table(sess, table_name, FirstLoopFields(listing))
            /\ store' = create_table(store, table_name, FirstLoopFields(listing))
            /\ ipc' = "insert"
            /\ idx' = 1
            /\ UNCHANGED ierr
    /\ UNCHANGED <<runs, table_name, listing, conn, aidx, startStore>>
    /\ UNCHANGED <<gvars, bvars, qvars>>

\* Lines 93-94: an entry that does not end in ".yaml" is passed over.
SkipNonYaml ==
    /\ ipc = "insert"
    /\ idx <= Len(listing)
    /\ ~IsYaml(listing[idx])
    /\ idx' = idx + 1
    /\ UNCHANGED <<ipc, runs, table_name, listing, store, sess, conn, aidx,
                   ierr, startStore>>
    /\ UNCHANGED <<gvars, bvars, qvars>>

\* The INSERT of _add_results_to_table for file f (lines 130-144).
AddResultsInsert(db, name, f) ==
    SqlInsert(db, name,
              InsertValuesText(f.doc, RunIdOfPath(ResultPathOf(f.name))), f)

\* Lines 94-97 and 130-144: one document is inserted; an sqlite3 error is
\* not a ScriptException, so it leaves main() as a traceback.
AddResultsToTable ==
    /\ ipc = "insert"
    /\ idx <= Len(listing)
    /\ IsYaml(listing[idx])
    /\ LET r == AddResultsInsert(sess, table_name, listing[idx])
       IN  IF RunIdOfPath(ResultPathOf(listing[idx].name)) < 0
           THEN /\ ierr' = "ValueError"
                /\ ipc' = "failed"
                /\ UNCHANGED <<sess, idx>>
           ELSE IF r.ok
           THEN /\ sess' = r.db
                /\ idx' = idx + 1
                /\ UNCHANGED <<ipc, ierr>>
           ELSE /\ ierr' = "OperationalError"
                /\ ipc' = "failed"
                /\ UNCHANGED <<sess, idx>>
    /\ UNCHANGED <<runs, table_name, listing, store, conn, aidx, startStore>>
    /\ UNCHANGED <<gvars, bvars, qvars>>

\* Lines 93 and 67: the loop ends; the args table is written for the
\* bangforbuck table only.
ResultsWritten ==
    /\ ipc = "insert"
    /\ idx > Len(listing)
    /\ ipc' = IF table_name = "bangforbuck" THEN "args" ELSE "commit"
    /\ UNCHANGED <<runs, table_name, listing, store, sess, conn, idx, aidx,
                   ierr, startStore>>
    /\ UNCHANGED <<gvars, bvars, qvars>>

\* Line 115-116: the run id a line of the runs file carries in its last
\* token: cmds[-1].split(".")[1].split("/")[-1], then int() of what follows
\* the last underscore.
ArgsResultId(cmds) ==
    LET dotted == Split(cmds[Len(cmds)], ".")
        slashed == Split(dotted[2], "/")
        result_name == slashed[Len(slashed)]
        toks == Split(result_name, "_")
    IN  StrToInt(toks[Len(toks)])

\* Lines 118-122: the int that follows the first "-b", None without one.
ArgsBfbText(cmds) ==
    IF \E i \in 1..(Len(cmds) - 1) : cmds[i] = FlagB
    THEN IntToStr(StrToInt(ArgOf(cmds, FlagB)))
    ELSE <<"N", "o", "n", "e">>

\* Lines 114 and 124-127: cmds = line.strip().split(), then
\* ",".join([str(result_id), str(bfb_used)]).
ArgsValuesText(line) ==
    LET cmds == SplitWords(line)
    IN  JoinComma(<<IntToStr(ArgsResultId(cmds)), ArgsBfbText(cmds)>>)

\* ../bangforbuck/bangforbuck_runs.txt: the runs file of the bangforbuck package.
BfbRunsFile == pkg["bangforbuck"].runs

\* Lines 101-112: the args table is created (inside the transaction the
\* inserts opened) and the runs file is opened.
WriteArgsTableOpen ==
    /\ ipc = "args"
    /\ sess' = create_table(sess, ArgsTableName(table_name),
                            <<result_id_col, "bfb">>)
    /\ IF BfbRunsFile.exists
       THEN /\ ipc' = "args_rows"
            /\ aidx' = 1
            /\ UNCHANGED ierr
       ELSE /\ ierr' = "FileNotFoundError"
            /\ ipc' = "failed"
            /\ UNCHANGED aidx
    /\ UNCHANGED <<runs, table_name, listing, store, conn, idx, startStore>>
    /\ UNCHANGED <<gvars, bvars, qvars>>

\* Lines 113-128: one line of the runs file becomes one row.
WriteArgsRow ==
    /\ ipc = "args_rows"
    /\ aidx <= Len(BfbRunsFile.lines)
    /\ LET line == BfbRunsFile.lines[aidx]
           r == SqlInsert(sess, ArgsTableName(table_name),
                          ArgsValuesText(LineText(line)),
                          [name |-> line, doc |-> DocNoStatus])
       IN  IF r.ok
           THEN /\ sess' = r.db
                /\ aidx' = aidx + 1
                /\ UNCHANGED <<ipc, ierr>>
           ELSE /\ ierr' = "OperationalError"
                /\ ipc' = "failed"
                /\ UNCHANGED <<sess, aidx>>
    /\ UNCHANGED <<runs, table_name, listing, store, conn, idx, startStore>>
    /\ UNCHANGED <<gvars, bvars, qvars>>

\* Line 113: the runs file is exhausted.
ArgsWritten ==
    /\ ipc = "args_rows"
    /\ aidx > Len(BfbRunsFile.lines)
    /\ ipc' = "commit"
    /\ UNCHANGED <<runs, table_name, listing, store, sess, conn, idx, aidx,
                   ierr, startStore>>
    /\ UNCHANGED <<gvars, bvars, qvars>>

\* Line 70: self._connection.commit().
Commit ==
    /\ ipc = "commit"
    /\ store' = sess
    /\ ipc' = "close"
    /\ UNCHANGED <<runs, table_name, listing, sess, conn, idx, aidx, ierr,
                   startStore>>
    /\ UNCHANGED <<gvars, bvars, qvars>>

\* Lines 71-73: cursor and connection are closed; main() returns.
Close ==
    /\ ipc = "close"
    /\ conn' = "closed"
    /\ ipc' = "idle"
    /\ listing' = <<>>
    /\ UNCHANGED <<runs, table_name, store, sess, idx, aidx, ierr, startStore>>
    /\ UNCHANGED <<gvars, bvars, qvars>>

\* An exit that keeps what the transaction held.
ExitOnErrorKeepingRows ==
    /\ ipc = "failed"
    /\ conn' = "abandoned"
    /\ store' = sess
    /\ ipc' = "idle"
    /\ listing' = <<>>
    /\ UNCHANGED <<runs, table_name, sess, idx, aidx, ierr, startStore>>
    /\ UNCHANGED <<gvars, bvars, qvars>>

\* Lines 173-178: main() logs a ScriptException; any other exception is a
\* traceback.  Either way the process ends with the connection never
\* committed nor closed, and SQLite drops what the transaction held.
ExitOnError ==
    /\ ipc = "failed"
    /\ conn' = "abandoned"
    /\ sess' = store
    /\ ipc' = "idle"
    /\ listing' = <<>>
    /\ UNCHANGED <<runs, table_name, store, idx, aidx, ierr, startStore>>
    /\ UNCHANGED <<gvars, bvars, qvars>>

NextIngest ==
    \/ StartRun
    \/ Connect
    \/ CreateFromFirst
    \/ SkipNonYaml
    \/ AddResultsToTable
    \/ ResultsWritten
    \/ WriteArgsTableOpen
    \/ WriteArgsRow
    \/ ArgsWritten
    \/ Commit
    \/ Close
    \/ ExitOnError

(***************************************************************************)
(* script_generator.py: the inputs of a generation                         *)
(***************************************************************************)

MaxRows == 2     \* data rows of the manifest

\* Folders of the data directory: "_100_" and "_102_" mark the groups that
\* _collect_exhaustive_cases leaves out.
Folder100 == <<"a", "_", "1", "0", "0", "_">>
Folder102 == <<"a", "_", "1", "0", "2", "_">>
FolderB == <<"b", "5">>
FolderC == <<"c">>

FileP == <<"p", ".", "t", "x", "t">>
FileQ == <<"q", ".", "t", "x", "t">>
FileDat == <<"r", ".", "d", "a", "t">>

DirEntry(folder, files) == [folder |-> folder, files |-> files]

\* config.data_path as os.listdir lists it: the folders, and the files of
\* each, in the order the file system gives them.
DataDirs ==
    { <<>>,
      <<DirEntry(Folder100, <<FileP>>)>>,
      <<DirEntry(FolderB, <<FileDat>>)>>,
      <<DirEntry(Folder102, <<FileQ>>), DirEntry(FolderB, <<FileDat, FileP>>)>>,
      <<DirEntry(FolderB, <<FileP, FileQ>>), DirEntry(FolderC, <<FileP>>)>>,
      <<DirEntry(FolderC, <<FileP>>), DirEntry(Folder100, <<FileP>>),
        DirEntry(FolderB, <<FileQ, FileP>>)>> }

\* Rows of the manifest as csv.reader returns them: lists of strings.  The
\* second one names its group without the closing "/".
ManifestRows ==
    { <<<<".", "/", "d", "a", "t", "a", "/", "b", "5", "/">>, FileP, <<"2">>>>,
      <<<<".", "/", "d", "a", "t", "a", "/", "b", "5">>, FileQ, <<"4">>>>,
      <<<<".", "/", "d", "a", "t", "a", "/", "c", "/">>, FileP, <<"1", "0">>>> }

Manifests == SeqsUpTo(ManifestRows, MaxRows)

Configs == [TestNames -> BOOLEAN]

\* discretizations of _collect_exhaustive_cases: ["2", "4"] for the
\* bang-for-buck runs (line 110), the default ["2", "4", "6"] otherwise.
DiscretizationsOf(test) ==
    IF test = "bangforbuck" THEN << <<"2">>, <<"4">> >>
    ELSE << <<"2">>, <<"4">>, <<"6">> >>

\* additional_cmds of _generate_exhaustive_setup: [["-b","1"],["-b","0"]]
\* for the bang-for-buck runs (lines 111-115), the default [] otherwise.
AdditionalCmdsOf(test) ==
    IF test = "bangforbuck"
    THEN << <<FlagB, <<"1">>>>, <<FlagB, <<"0">>>> >>
    ELSE <<>>

\* cmd_args of _generate_non_exhaustive_setup (lines 86-103).
CmdArgsOf(test) ==
    CASE test = "dominance" ->
             <<FlagS, <<"1">>, FlagI, <<"1">>, FlagRd, <<"0">>>>
      [] test = "simple" -> <<FlagS, <<"1">>, FlagI, <<"0">>>>
      [] OTHER -> <<FlagS, <<"1">>, FlagI, <<"1">>>>

IsExhaustiveType(test) == test \in {"bangforbuck", "exhaustive"}

\* '_100_' in folder or '_102_' in folder
IsExcludedFolder(folder) ==
    Contains(folder, <<"_", "1", "0", "0", "_">>) \/ Contains(folder, <<"_", "1", "0", "2", "_">>)

\* The cases of one file: one per discretization (lines 190-191).
CasesOfFile(folder, f, discs) ==
    [k \in 1..Len(discs) |-> <<folder, f, discs[k]>>]

\* The cases of one folder (lines 188-191).
RECURSIVE CasesOfFolder(_, _, _)
CasesOfFolder(folder, files, discs) ==
    IF Len(files) = 0 THEN <<>>
    ELSE (IF EndsWith(files[1], TxtSuffix)
          THEN CasesOfFile(folder, files[1], discs) ELSE <<>>)
         \o CasesOfFolder(folder, Tail(files), discs)

\* Lines 183-191 of _collect_exhaustive_cases: the walk of the data folder.
RECURSIVE CollectExhaustiveCases(_, _)
CollectExhaustiveCases(dir, discs) ==
    IF Len(dir) = 0 THEN <<>>
    ELSE (IF IsExcludedFolder(dir[1].folder) THEN <<>>
          ELSE CasesOfFolder(dir[1].folder, dir[1].files, discs))
         \o CollectExhaustiveCases(Tail(dir), discs)

\* Lines 199-206 of _collect_cases_from_file: each data row becomes
\* (row[0].replace('./data/', '')[:-1], row[1], int(row[2])).
CollectCasesFromFile(rows) ==
    [k \in 1..Len(rows) |->
        <<DropLast(Replace(rows[k][1], DataPrefix, <<>>)), rows[k][2],
          StrToInt(rows[k][3])>>]

\* _get_folder_and_file_names: set([(c[0], c[1]) for c in cases]).
FolderAndFileNames(cs) == {<<cs[k][1], cs[k][2]>> : k \in 1..Len(cs)}

\* os.path.join(data_path, folder_name, file_name) is a file.
DataFileExists(dir, folder, file) ==
    \E k \in 1..Len(dir) : dir[k].folder = folder /\ file \in Range(dir[k].files)

(***************************************************************************)
(* script_generator.py: Controller.run                                    *)
(***************************************************************************)

\* The run type Controller.run is at.
test_name == RunTypes[stage]

\* Lines 75-81 and 216-221: _prepare_uberjar.  The gradle build fails
\* (CalledProcessError), leaves no jar (ScriptException) or succeeds.
PrepareUberjar ==
    /\ gpc = "start"
    /\ \E outcome \in {"built", "CalledProcessError", "ScriptException"} :
          IF outcome = "built"
          THEN /\ gpc' = "select"
               /\ stage' = 1
               /\ UNCHANGED gerr
          ELSE /\ gpc' = "failed"
               /\ gerr' = outcome
               /\ UNCHANGED stage
    /\ UNCHANGED <<config, dataDir, manifest, cases, counter, ci, vi, scratch,
                   pkg, copyList, ki>>
    /\ UNCHANGED <<ivars, bvars, qvars>>

\* Lines 83-105: a run type whose flag is off is passed over.
SkipRunType ==
    /\ gpc = "select"
    /\ stage <= Len(RunTypes)
    /\ ~config[test_name]
    /\ stage' = stage + 1
    /\ UNCHANGED <<gpc, config, dataDir, manifest, cases, counter, ci, vi,
                   scratch, pkg, copyList, ki, gerr>>
    /\ UNCHANGED <<ivars, bvars, qvars>>

\* Line 105: Controller.run returns.
Finish ==
    /\ gpc = "select"
    /\ stage > Len(RunTypes)
    /\ gpc' = "done"
    /\ UNCHANGED <<config, dataDir, manifest, stage, cases, counter, ci, vi,
                   scratch, pkg, copyList, ki, gerr>>
    /\ UNCHANGED <<ivars, bvars, qvars>>

\* The directory discovery without the check of lines 193-194.
CollectExhaustiveUnchecked ==
    /\ gpc = "select"
    /\ stage <= Len(RunTypes)
    /\ config[test_name]
    /\ IsExhaustiveType(test_name)
    /\ cases' = CollectExhaustiveCases(dataDir, DiscretizationsOf(test_name))
    /\ gpc' = "open"
    /\ UNCHANGED <<config, dataDir, manifest, stage, counter, ci, vi, scratch,
                   pkg, copyList, ki, gerr>>
    /\ UNCHANGED <<ivars, bvars, qvars>>

\* Lines 110 and 107, 182-196: _collect_exhaustive_cases for the
\* bang-for-buck and the exhaustive runs, before the runs file is opened.
CollectExhaustive ==
    /\ gpc = "select"
    /\ stage <= Len(RunTypes)
    /\ config[test_name]
    /\ IsExhaustiveType(test_name)
    /\ LET found == CollectExhaustiveCases(dataDir, DiscretizationsOf(test_name))
       IN  IF Len(found) = 0
           THEN /\ gerr' = "ScriptException"
                /\ gpc' = "failed"
                /\ UNCHANGED cases
           ELSE /\ cases' = found
                /\ gpc' = "open"
                /\ UNCHANGED gerr
    /\ UNCHANGED <<config, dataDir, manifest, stage, counter, ci, vi, scratch,
                   pkg, copyList, ki>>
    /\ UNCHANGED <<ivars, bvars, qvars>>

\* The manifest read without the check of lines 208-209.
CollectFromFileUnchecked ==
    /\ gpc = "select"
    /\ stage <= Len(RunTypes)
    /\ config[test_name]
    /\ ~IsExhaustiveType(test_name)
    /\ cases' = CollectCasesFromFile(manifest)
    /\ gpc' = "open"
    /\ UNCHANGED <<config, dataDir, manifest, stage, counter, ci, vi, scratch,
                   pkg, copyList, ki, gerr>>
    /\ UNCHANGED <<ivars, bvars, qvars>>

\* Lines 118, 198-211: _collect_cases_from_file for the other run types.
CollectFromFile ==
    /\ gpc = "select"
    /\ stage <= Len(RunTypes)
    /\ config[test_name]
    /\ ~IsExhaustiveType(test_name)
    /\ LET found == CollectCasesFromFile(manifest)
       IN  IF Len(found) = 0
           THEN /\ gerr' = "ScriptException"
                /\ gpc' = "failed"
                /\ UNCHANGED cases
           ELSE /\ cases' = found
                /\ gpc' = "open"
                /\ UNCHANGED gerr
    /\ UNCHANGED <<config, dataDir, manifest, stage, counter, ci, vi, scratch,
                   pkg, copyList, ki>>
    /\ UNCHANGED <<ivars, bvars, qvars>>

\* Lines 119-123 and 149-153: open(runs_file_path, 'w') in the script
\* folder; counter = 0.
OpenRunsFile ==
    /\ gpc = "open"
    /\ scratch' = [scratch EXCEPT ![test_name] = [exists |-> TRUE, lines |-> <<>>]]
    /\ counter' = 0
    /\ ci' = 1
    /\ vi' = 1
    /\ gpc' = "write"
    /\ UNCHANGED <<config, dataDir, manifest, stage, cases, pkg, copyList, ki,
                   gerr>>
    /\ UNCHANGED <<ivars, bvars, qvars>>

\* The counter after a line: it does not advance.
NextCounterStuck(c) == c

\* counter += 1 (lines 141, 167, 176)
NextCounter(c) == c + 1

\* Lines 124-141: one case of _generate_non_exhaustive_setup, one line.
WriteNonExhaustiveLine ==
    /\ gpc = "write"
    /\ ~IsExhaustiveType(test_name)
    /\ ci <= Len(cases)
    /\ scratch' = [scratch EXCEPT ![test_name].lines =
          Append(@, NonExhaustiveCmd(cases[ci], counter, CmdArgsOf(test_name)))]
    /\ counter' = NextCounter(counter)
    /\ ci' = ci + 1
    /\ UNCHANGED <<gpc, config, dataDir, manifest, stage, cases, vi, pkg,
                   copyList, ki, gerr>>
    /\ UNCHANGED <<ivars, bvars, qvars>>

\* Lines 154-176: one line of _generate_exhaustive_setup: the line of the
\* case when there are no additional commands, else the line of the case
\* with one of them, the additions being the inner loop.
WriteExhaustiveLine ==
    /\ gpc = "write"
    /\ IsExhaustiveType(test_name)
    /\ ci <= Len(cases)
    /\ LET adds == AdditionalCmdsOf(test_name)
           addition == IF Len(adds) = 0 THEN <<>> ELSE adds[vi]
       IN  /\ scratch' = [scratch EXCEPT ![test_name].lines =
                 Append(@, ExhaustiveCmdWithOutput(cases[ci], addition, counter))]
           /\ IF Len(adds) = 0 \/ vi = Len(adds)
              THEN ci' = ci + 1 /\ vi' = 1
              ELSE ci' = ci /\ vi' = vi + 1
    /\ counter' = NextCounter(counter)
    /\ UNCHANGED <<gpc, config, dataDir, manifest, stage, cases, pkg, copyList,
                   ki, gerr>>
    /\ UNCHANGED <<ivars, bvars, qvars>>

\* Lines 143-145 and 178-180: the with block closes the runs file and
\* _prepare_test_folder is called with list(set(...)) of the cases' folder
\* and file names; a set is iterated in no particular order.
CloseRunsFile ==
    /\ gpc = "write"
    /\ ci > Len(cases)
    /\ copyList' \in Perms(FolderAndFileNames(cases))
    /\ ki' = 1
    /\ gpc' = "mk_package"
    /\ UNCHANGED <<config, dataDir, manifest, stage, cases, counter, ci, vi,
                   scratch, pkg, gerr>>
    /\ UNCHANGED <<ivars, bvars, qvars>>

(***************************************************************************)
(* script_generator.py: _prepare_test_folder, one file operation a step    *)
(***************************************************************************)

\* What every step of _prepare_test_folder leaves alone.
PrepareFrame ==
    /\ UNCHANGED <<config, dataDir, manifest, stage, cases, counter, ci, vi,
                   copyList, gerr>>
    /\ UNCHANGED <<ivars, bvars, qvars>>

\* Lines 224-225: os.makedirs(rt_path, exist_ok=True).
MakePackageDir ==
    /\ gpc = "mk_package"
    /\ pkg' = [pkg EXCEPT ![test_name].exists = TRUE]
    /\ gpc' = "cp_jar"
    /\ UNCHANGED <<scratch, ki>>
    /\ PrepareFrame

\* Line 226: the jar is copied into the package.
CopyJar ==
    /\ gpc = "cp_jar"
    /\ pkg' = [pkg EXCEPT ![test_name].jar = TRUE]
    /\ gpc' = "cp_runs"
    /\ UNCHANGED <<scratch, ki>>
    /\ PrepareFrame

\* Lines 227-231, first file of the loop: the runs file is copied from the
\* script folder into the package.
CopyRunsFile ==
    /\ gpc = "cp_runs"
    /\ pkg' = [pkg EXCEPT ![test_name].runs = scratch[test_name]]
    /\ gpc' = "cp_submit"
    /\ UNCHANGED <<scratch, ki>>
    /\ PrepareFrame

\* Lines 228-231, second file: submit-batch.sh.
CopySubmitScript ==
    /\ gpc = "cp_submit"
    /\ pkg' = [pkg EXCEPT ![test_name].scripts = @ \cup {"submit-batch.sh"}]
    /\ gpc' = "cp_slurm"
    /\ UNCHANGED <<scratch, ki>>
    /\ PrepareFrame

\* Lines 228-231, third file: slurm-batch-job.sh.
CopySlurmScript ==
    /\ gpc = "cp_slurm"
    /\ pkg' = [pkg EXCEPT ![test_name].scripts = @ \cup {"slurm-batch-job.sh"}]
    /\ gpc' = "rm_scratch"
    /\ UNCHANGED <<scratch, ki>>
    /\ PrepareFrame

\* Line 233: os.remove of the runs file in the script folder.
RemoveScratch ==
    /\ gpc = "rm_scratch"
    /\ scratch' = [scratch EXCEPT ![test_name] = NoFile]
    /\ gpc' = "mk_data"
    /\ UNCHANGED <<pkg, ki>>
    /\ PrepareFrame

\* Lines 236-237: os.makedirs(test_data_path, exist_ok=True).
MakeDataRoot ==
    /\ gpc = "mk_data"
    /\ pkg' = [pkg EXCEPT ![test_name].dataRoot = TRUE]
    /\ gpc' = "mk_case_dir"
    /\ UNCHANGED <<scratch, ki>>
    /\ PrepareFrame

\* Lines 238-240: the folder of the next (folder, file) pair is made.
MakeCaseDir ==
    /\ gpc = "mk_case_dir"
    /\ ki <= Len(copyList)
    /\ pkg' = [pkg EXCEPT ![test_name].dataDirs = @ \cup {copyList[ki][1]}]
    /\ gpc' = "cp_case"
    /\ UNCHANGED <<scratch, ki>>
    /\ PrepareFrame

\* Lines 241-246: the instance file is copied; shutil.copy of a file that
\* is not in the data folder raises FileNotFoundError.
CopyCaseFile ==
    /\ gpc = "cp_case"
    /\ IF DataFileExists(dataDir, copyList[ki][1], copyList[ki][2])
       THEN /\ pkg' = [pkg EXCEPT ![test_name].data = @ \cup {copyList[ki]}]
            /\ ki' = ki + 1
            /\ gpc' = "mk_case_dir"
            /\ UNCHANGED gerr
       ELSE /\ gerr' = "FileNotFoundError"
            /\ gpc' = "failed"
            /\ UNCHANGED <<pkg, ki>>
    /\ UNCHANGED scratch
    /\ UNCHANGED <<config, dataDir, manifest, stage, cases, counter, ci, vi,
                   copyList>>
    /\ UNCHANGED <<ivars, bvars, qvars>>

\* Lines 248-250, first name: the output folder.
MakeOutputDir ==
    /\ gpc = "mk_case_dir"
    /\ ki > Len(copyList)
    /\ pkg' = [pkg EXCEPT ![test_name].output = TRUE]
    /\ gpc' = "mk_results"
    /\ UNCHANGED <<scratch, ki>>
    /\ PrepareFrame

\* Lines 248-251, second name: the results folder; _prepare_test_folder and
\* the setup return, and Controller.run goes on to the next run type.
MakeResultsDir ==
    /\ gpc = "mk_results"
    /\ pkg' = [pkg EXCEPT ![test_name].results = TRUE]
    /\ gpc' = "select"
    /\ stage' = stage + 1
    /\ cases' = <<>>
    /\ copyList' = <<>>
    /\ ki' = 0
    /\ ci' = 0
    /\ vi' = 0
    /\ counter' = 0
    /\ UNCHANGED <<config, dataDir, manifest, scratch, gerr>>
    /\ UNCHANGED <<ivars, bvars, qvars>>

NextGen ==
    \/ PrepareUberjar
    \/ SkipRunType
    \/ Finish
    \/ CollectExhaustive
    \/ CollectFromFile
    \/ OpenRunsFile
    \/ WriteNonExhaustiveLine
    \/ WriteExhaustiveLine
    \/ CloseRunsFile
    \/ MakePackageDir
    \/ CopyJar
    \/ CopyRunsFile
    \/ CopySubmitScript
    \/ CopySlurmScript
    \/ RemoveScratch
    \/ MakeDataRoot
    \/ MakeCaseDir
    \/ CopyCaseFile
    \/ MakeOutputDir
    \/ MakeResultsDir

(***************************************************************************)
(* batch_runner.py: Controller.run                                         *)
(***************************************************************************)

\* The five run sets of Config (lines 21-25).
RunSets == {"budget", "mean", "parallel", "quality", "time"}

\* config.data_path (line 17).
BatchDataPath == <<"/", "r", "e", "p", "o", "/", "d", "a", "t", "a">>

\* os.path.join(top, f) for a file f of a folder of the data path.
CasePath(folder, f) == BatchDataPath \o <<"/">> \o folder \o <<"/">> \o f

\* The (folder, file) pairs os.walk meets, in the order it meets them: the
\* folders as listed, the files of each as listed.
RECURSIVE WalkFiles(_)
WalkFiles(dir) ==
    IF Len(dir) = 0 THEN <<>>
    ELSE [k \in 1..Len(dir[1].files) |-> <<dir[1].folder, dir[1].files[k]>>]
         \o WalkFiles(Tail(dir))

\* _collect_cases_to_run (lines 133-138): the walk appends the path of the
\* first file ending in ".txt" and returns at once.
CollectCasesToRun(dir) ==
    LET w == WalkFiles(dir)
        hits == {k \in 1..Len(w) : EndsWith(w[k][2], TxtSuffix)}
    IN  IF hits = {} THEN <<>>
        ELSE LET k == CHOOSE x \in hits : \A y \in hits : x <= y
             IN  <<CasePath(w[k][1], w[k][2])>>

\* What a step of batch_runner.py leaves alone.
BatchFrame == UNCHANGED <<ivars, gvars, qvars, bconfig, cplex, invocations>>

\* Line 67 and 125-131: _prepare_uberjar.
BPrepareUberjar ==
    /\ bpc = "start"
    /\ \E outcome \in {"built", "CalledProcessError", "ScriptException"} :
          IF outcome = "built"
          THEN bpc' = "validate" /\ UNCHANGED berr
          ELSE bpc' = "failed" /\ berr' = outcome
    /\ UNCHANGED <<logsDir, bcases>>
    /\ BatchFrame

\* Line 68 and 107-123: _validate_setup makes the folder logs and wants a
\* cplex library path that is a folder (the data folder is there).
BValidateSetup ==
    /\ bpc = "validate"
    /\ logsDir' = TRUE
    /\ IF cplex = "dir"
       THEN bpc' = "collect" /\ UNCHANGED berr
       ELSE bpc' = "failed" /\ berr' = "ScriptException"
    /\ UNCHANGED bcases
    /\ BatchFrame

\* Line 69: self._collect_cases_to_run().
BCollectCases ==
    /\ bpc = "collect"
    /\ bcases' = bcases \o CollectCasesToRun(dataDir)
    /\ bpc' = "check"
    /\ UNCHANGED <<logsDir, berr>>
    /\ BatchFrame

\* Lines 70-85: no case raises ScriptException; otherwise the cases are
\* printed, the base command is set and run returns.
BCheckCases ==
    /\ bpc = "check"
    /\ IF Len(bcases) = 0
       THEN bpc' = "failed" /\ berr' = "ScriptException"
       ELSE bpc' = "done" /\ UNCHANGED berr
    /\ UNCHANGED <<logsDir, bcases>>
    /\ BatchFrame

NextBatch ==
    \/ BPrepareUberjar
    \/ BValidateSetup
    \/ BCollectCases
    \/ BCheckCases

(***************************************************************************)
(* final-results: queries.py, db_connector.py, create_results.py           *)
(***************************************************************************)

\* The tables create_results.py reads (queries.py lines 2, 78-79).
QueryTables == {"exhaustive_dssr_bit_based_cycles", "one_thread_dssr_bit_based_cycles"}

\* The text by which a query names a table.
TableText(t) ==
    IF t = "exhaustive_dssr_bit_based_cycles"
    THEN <<"e", "x", "h", "a", "u", "s", "t", "i", "v", "e", "_", "d", "s", "s", "r", "_", "b", "i", "t", "_", "b", "a", "s", "e", "d", "_", "c", "y", "c", "l", "e", "s">>
    ELSE <<"o", "n", "e", "_", "t", "h", "r", "e", "a", "d", "_", "d", "s", "s", "r", "_", "b", "i", "t", "_", "b", "a", "s", "e", "d", "_", "c", "y", "c", "l", "e", "s">>

\* create_results.py lines 13-14.
num_targets == <<21, 32, 33, 64, 66>>
num_discretizations == <<2, 4, 6>>

\* Values of the parameter category of the count builder: the two that
\* create_results.py passes (line 15) and one that the builder has no branch
\* for.
Categories == {"optimal", "infeasible", "timed-out"}

\* queries.py lines 1-9: the text of the count query.
generate_exhaustive_table_count_query(category, nt, nd) ==
    LET q1 == <<"s", "e", "l", "e", "c", "t", " ", "c", "o", "u", "n", "t", "(", "*", ")", " ", "f", "r", "o", "m", " ", "e", "x", "h", "a", "u", "s", "t", "i", "v", "e", "_", "d", "s", "s", "r", "_", "b", "i", "t", "_", "b", "a", "s", "e", "d", "_", "c", "y", "c", "l", "e", "s", " ", "w", "h", "e", "r", "e", " ">>
        q2 == q1 \o <<"c", "a", "s", "t", "(", "n", "u", "m", "b", "e", "r", "_", "o", "f", "_", "d", "i", "s", "c", "r", "e", "t", "i", "z", "a", "t", "i", "o", "n", "s", " ", "a", "s", " ", "i", "n", "t", "e", "g", "e", "r", ")", " ", "=", " ">> \o IntToStr(nd) \o <<" ", "a", "n", "d", " ">>
        q3 == q2 \o <<"i", "n", "s", "t", "a", "n", "c", "e", "_", "p", "a", "t", "h", " ", "l", "i", "k", "e", " ", "\"", "%">> \o IntToStr(nt) \o <<"%", "\"", " ", "a", "n", "d", " ">>
        q4 == IF category = "optimal"
              THEN q3 \o <<"c", "a", "s", "t", "(", "s", "o", "l", "u", "t", "i", "o", "n", "_", "t", "i", "m", "e", "_", "i", "n", "_", "s", "e", "c", "o", "n", "d", "s", " ", "a", "s", " ", "d", "e", "c", "i", "m", "a", "l", "(", "1", "6", ",", "2", ")", ")", " ", "<", " ", "3", "6", "0", "0", ".", "0">>
              ELSE q3
    IN  IF category = "timed-out"
        THEN q4 \o <<"c", "a", "s", "t", "(", "s", "o", "l", "u", "t", "i", "o", "n", "_", "t", "i", "m", "e", "_", "i", "n", "_", "s", "e", "c", "o", "n", "d", "s", " ", "a", "s", " ", "d", "e", "c", "i", "m", "a", "l", "(", "1", "6", ",", "2", ")", ")", " ", ">", "=", " ", "3", "6", "0", "0", ".", "0">>
        ELSE q4

\* The position of the first occurrence of sub in s, 0 when there is none.
Find(s, sub) ==
    LET at == {i \in 1..Len(s) : MatchAt(s, i, sub)}
    IN  IF at = {} THEN 0 ELSE CHOOSE i \in at : \A j \in at : i <= j

\* The pieces of s between the occurrences of sep.
RECURSIVE SplitOn(_, _)
SplitOn(s, sep) ==
    LET i == Find(s, sep)
    IN  IF i = 0 THEN <<s>>
        ELSE <<SubSeq(s, 1, i - 1)>> \o SplitOn(SubSeq(s, i + Len(sep), Len(s)), sep)

\* s without the spaces at its two ends.
RECURSIVE Strip(_)
Strip(s) ==
    IF Len(s) = 0 THEN s
    ELSE IF s[1] = " " THEN Strip(Tail(s))
    ELSE IF s[Len(s)] = " " THEN Strip(DropLast(s))
    ELSE s

\* SQLite on the text of a count query: the table after "from", the
\* conditions after "where", separated by "and".
QueryTable(text) ==
    LET named == SplitOn(SplitOn(text, <<" ", "f", "r", "o", "m", " ">>)[2], <<" ">>)[1]
    IN  CHOOSE t \in QueryTables : TableText(t) = named

QueryConditions(text) ==
    LET parts == SplitOn(text, <<" ", "w", "h", "e", "r", "e", " ">>)
    IN  IF Len(parts) < 2 THEN <<>>
        ELSE SplitOn(parts[2], <<" ", "a", "n", "d", " ">>)

DiscretizationTest == <<"c", "a", "s", "t", "(", "n", "u", "m", "b", "e", "r", "_", "o", "f", "_", "d", "i", "s", "c", "r", "e", "t", "i", "z", "a", "t", "i", "o", "n", "s", " ", "a", "s", " ", "i", "n", "t", "e", "g", "e", "r", ")", " ", "=", " ">>
PathTest == <<"i", "n", "s", "t", "a", "n", "c", "e", "_", "p", "a", "t", "h", " ", "l", "i", "k", "e", " ", "\"", "%">>
TimeTest == <<"c", "a", "s", "t", "(", "s", "o", "l", "u", "t", "i", "o", "n", "_", "t", "i", "m", "e", "_", "i", "n", "_", "s", "e", "c", "o", "n", "d", "s", " ", "a", "s", " ", "d", "e", "c", "i", "m", "a", "l", "(", "1", "6", ",", "2", ")", ")", " ">>

\* A number written with a decimal point, in units: its part before the
\* point (the times of the model are whole seconds).
Units(s) == StrToInt(Split(s, ".")[1])

\* A condition SQLite can evaluate: one of the three forms the builders write.
WellFormed(cond) ==
    \/ MatchAt(cond, 1, DiscretizationTest) /\ IsNumeral(SubSeq(cond, Len(DiscretizationTest) + 1, Len(cond)))
    \/ MatchAt(cond, 1, PathTest) /\ EndsWith(cond, <<"%", "\"">>)
    \/ MatchAt(cond, 1, TimeTest \o <<"<", " ">>)
    \/ MatchAt(cond, 1, TimeTest \o <<">", "=", " ">>)

\* The value of a well-formed condition on a row.
ConditionHolds(cond, row) ==
    IF MatchAt(cond, 1, DiscretizationTest)
    THEN StrToInt(row.number_of_discretizations)
             = StrToInt(SubSeq(cond, Len(DiscretizationTest) + 1, Len(cond)))
    ELSE IF MatchAt(cond, 1, PathTest)
    THEN Contains(row.instance_path, SubSeq(cond, Len(PathTest) + 1, Len(cond) - 2))
    ELSE IF MatchAt(cond, 1, TimeTest \o <<"<", " ">>)
    THEN Units(row.solution_time_in_seconds)
             < Units(SubSeq(cond, Len(TimeTest) + 3, Len(cond)))
    ELSE Units(row.solution_time_in_seconds)
             >= Units(SubSeq(cond, Len(TimeTest) + 4, Len(cond)))

NoOutput == [kind |-> "none", count |-> 0, rows |-> <<>>]

\* db_connector.py lines 14-17 on a count query: the number of rows that
\* pass every condition; sqlite3.OperationalError when a condition is
\* missing or cannot be parsed.
execute_query(db, text) ==
    LET conds == QueryConditions(text)
        table == db[QueryTable(text)]
    IN  IF Len(conds) = 0 \/ \E k \in 1..Len(conds) : ~WellFormed(Strip(conds[k]))
        THEN [kind |-> "error", count |-> 0, rows |-> <<>>]
        ELSE [kind |-> "count",
              count |-> Cardinality({i \in 1..Len(table) :
                            \A k \in 1..Len(conds) : ConditionHolds(Strip(conds[k]), table[i])}),
              rows |-> <<>>]

\* queries.py lines 67-88: the comparison query, by its clauses.  It has no
\* parameter: the two tables, the join columns and the filter are written
\* in its text.
generate_concurrency_query ==
    [from |-> "one_thread_dssr_bit_based_cycles",
     join |-> "exhaustive_dssr_bit_based_cycles",
     on |-> {"instance_name", "number_of_discretizations"},
     optimality_reached |-> <<"T", "r", "u", "e">>,
     solution_time_above |-> <<"5", ".", "0">>]

\* The instance names of the model, in the order of "order by".
InstanceNames == <<<<"a", ".", "t", "x", "t">>, <<"b", ".", "t", "x", "t">>>>

InstanceRank(name) == CHOOSE i \in DOMAIN InstanceNames : InstanceNames[i] = name

\* rows ordered by their column instance_name, rows of one name in the
\* order they had.
RECURSIVE OrderByName(_)
OrderByName(rows) ==
    IF Len(rows) = 0 THEN <<>>
    ELSE LET least == CHOOSE i \in 1..Len(rows) :
                 /\ \A j \in 1..Len(rows) :
                        InstanceRank(rows[i].instance_name) <= InstanceRank(rows[j].instance_name)
                 /\ \A j \in 1..(i - 1) :
                        InstanceRank(rows[j].instance_name) > InstanceRank(rows[i].instance_name)
         IN  <<rows[least]>>
                 \o OrderByName(SubSeq(rows, 1, least - 1) \o SubSeq(rows, least + 1, Len(rows)))

\* db_connector.py lines 23-24 on the comparison query: one row for every
\* pair of a row of the first table and a row of the joined table that agree
\* on the join columns and pass the filter, with the selected columns
\* (queries.py lines 70-77; maximum_parallel_solves is left out).
get_dataframe(db, q) ==
    LET left == db[q.from]
        right == db[q.join]
        pairs == [k \in 1..(Len(left) * Len(right)) |->
                     [l |-> left[((k - 1) \div Len(right)) + 1],
                      r |-> right[((k - 1) % Len(right)) + 1]]]
        joined == SelectSeq(pairs, LAMBDA p :
                     /\ \A col \in q.on : p.l[col] = p.r[col]
                     /\ p.l.optimality_reached = q.optimality_reached
                     /\ Units(p.l.solution_time_in_seconds) > Units(q.solution_time_above))
    IN  OrderByName([k \in 1..Len(joined) |->
            [instance_name |-> joined[k].r.instance_name,
             num_targets |-> StrToInt(SubSeq(joined[k].r.instance_path, 12, 13)),
             num_discretizations |-> StrToInt(joined[k].l.number_of_discretizations),
             one_thread_time |-> joined[k].l.solution_time_in_seconds,
             one_thread_opt_reached |-> joined[k].l.optimality_reached,
             concurrent_time |-> joined[k].r.solution_time_in_seconds,
             concurrent_opt_reached |-> joined[k].r.optimality_reached]])

\* create_results.py line 66: str.replace(r'.txt$', '', regex=True).
StripTxt(name) ==
    IF Len(name) >= 4 /\ EndsWith(name, <<"t", "x", "t">>)
    THEN SubSeq(name, 1, Len(name) - 4)
    ELSE name

\* create_results.py lines 66-76: the names lose their extension, the
\* columns with "opt" in their name are deleted, the others become numbers.
NumericFrame(rows) ==
    [k \in 1..Len(rows) |->
        [instance_name |-> StripTxt(rows[k].instance_name),
         num_targets |-> rows[k].num_targets,
         num_discretizations |-> rows[k].num_discretizations,
         one_thread_time |-> Units(rows[k].one_thread_time),
         concurrent_time |-> Units(rows[k].concurrent_time)]]

\* create_results.py line 77, as a fraction num/den:
\* (one_thread_time - concurrent_time) / one_thread_time * 100.00
improvement_factor(row) ==
    [num |-> (row.one_thread_time - row.concurrent_time) * 100,
     den |-> row.one_thread_time]

QueryFrame == UNCHANGED <<ivars, gvars, bvars, qdb>>

\* create_results.py lines 22-24: one cell of the table of counts, for the
\* arguments in qargs.  An sqlite3.OperationalError is not caught and ends
\* the script.
QCountCell ==
    /\ qpc = "start"
    /\ LET query == generate_exhaustive_table_count_query(
                        qargs.category, qargs.num_targets, qargs.num_discretizations)
           results == execute_query(qdb, query)
       IN  /\ qtext' = query
           /\ qout' = results
           /\ qpc' = IF results.kind = "error" THEN "failed" ELSE "counted"
    /\ UNCHANGED qargs
    /\ QueryFrame

\* create_results.py lines 64-76.
QConcurrencyFrame ==
    /\ qpc = "counted"
    /\ qtext' = <<>>
    /\ qout' = [kind |-> "frame", count |-> 0,
                rows |-> NumericFrame(get_dataframe(qdb, generate_concurrency_query))]
    /\ qpc' = "frame"
    /\ UNCHANGED qargs
    /\ QueryFrame

\* create_results.py lines 77-78.
QImprovementFactor ==
    /\ qpc = "frame"
    /\ qout' = [qout EXCEPT !.rows =
                   [k \in 1..Len(qout.rows) |->
                       [instance_name |-> qout.rows[k].instance_name,
                        num_targets |-> qout.rows[k].num_targets,
                        num_discretizations |-> qout.rows[k].num_discretizations,
                        one_thread_time |-> qout.rows[k].one_thread_time,
                        concurrent_time |-> qout.rows[k].concurrent_time,
                        improvement_factor |-> improvement_factor(qout.rows[k])]]]
    /\ qpc' = "done"
    /\ UNCHANGED <<qargs, qtext>>
    /\ QueryFrame

NextQuery ==
    \/ QCountCell
    \/ QConcurrencyFrame
    \/ QImprovementFactor

(***************************************************************************)
(* Initial states and specifications                                       *)
(***************************************************************************)

\* update_db.py not started, the database file empty.
IngestIdle ==
    /\ ipc = "idle"
    /\ runs = 0
    /\ table_name = "search_comparison"
    /\ listing = <<>>
    /\ store = [t \in AllTables |-> NoTable]
    /\ sess = [t \in AllTables |-> NoTable]
    /\ conn = "none"
    /\ idx = 0
    /\ aidx = 0
    /\ ierr = "none"
    /\ startStore = [t \in AllTables |-> NoTable]

\* script_generator.py not started, no runs file and no package yet.
GenIdle ==
    /\ gpc = "start"
    /\ stage = 0
    /\ cases = <<>>
    /\ counter = 0
    /\ ci = 0
    /\ vi = 0
    /\ scratch = [t \in TestNames |-> NoFile]
    /\ copyList = <<>>
    /\ ki = 0
    /\ gerr = "none"

\* batch_runner.py not started.
BatchIdle ==
    /\ bpc = "start"
    /\ bconfig = [r \in RunSets |-> FALSE]
    /\ cplex = "dir"
    /\ logsDir = FALSE
    /\ bcases = <<>>
    /\ invocations = <<>>
    /\ berr = "none"

\* create_results.py not started, results.db without rows.
QueryIdle ==
    /\ qpc = "start"
    /\ qdb = [t \in QueryTables |-> <<>>]
    /\ qargs = [category |-> "", num_targets |-> 0, num_discretizations |-> 0]
    /\ qtext = <<>>
    /\ qout = NoOutput

InitGen ==
    /\ GenIdle
    /\ BatchIdle
    /\ QueryIdle
    /\ config \in Configs
    /\ dataDir \in DataDirs
    /\ manifest \in Manifests
    /\ pkg = [t \in TestNames |-> NoPackage]
    /\ IngestIdle

SpecGen == InitGen /\ [][NextGen]_vars

\* The lines _generate_exhaustive_setup writes for the cases cs, the counter
\* starting at c (lines 152-176).
RECURSIVE ExhaustiveLinesFrom(_, _, _)
ExhaustiveLinesFrom(cs, adds, c) ==
    IF Len(cs) = 0 THEN <<>>
    ELSE IF Len(adds) = 0
         THEN <<ExhaustiveCmdWithOutput(cs[1], <<>>, c)>>
              \o ExhaustiveLinesFrom(Tail(cs), adds, c + 1)
         ELSE [k \in 1..Len(adds) |->
                  ExhaustiveCmdWithOutput(cs[1], adds[k], c + k - 1)]
              \o ExhaustiveLinesFrom(Tail(cs), adds, c + Len(adds))

\* The package a completed bang-for-buck generation leaves for data folder dir.
BangForBuckPackage(dir) ==
    LET cs == CollectExhaustiveCases(dir, DiscretizationsOf("bangforbuck"))
    IN  [exists |-> TRUE, jar |-> TRUE,
         runs |-> [exists |-> TRUE,
                   lines |-> ExhaustiveLinesFrom(cs, AdditionalCmdsOf("bangforbuck"), 0)],
         scripts |-> {"submit-batch.sh", "slurm-batch-job.sh"},
         dataRoot |-> TRUE,
         dataDirs |-> {p[1] : p \in FolderAndFileNames(cs)},
         data |-> FolderAndFileNames(cs),
         output |-> TRUE, results |-> TRUE]

\* update_db.py starts on an empty database; the bang-for-buck package has
\* been generated before, or not.
InitIngest ==
    /\ IngestIdle
    /\ GenIdle
    /\ BatchIdle
    /\ QueryIdle
    /\ config = [t \in TestNames |-> FALSE]
    /\ dataDir = <<DirEntry(FolderB, <<FileP>>)>>
    /\ manifest = <<>>
    /\ pkg \in {[t \in TestNames |-> NoPackage],
                [t \in TestNames |->
                    IF t = "bangforbuck" THEN BangForBuckPackage(dataDir)
                    ELSE NoPackage]}

SpecIngest == InitIngest /\ [][NextIngest]_vars

\* batch_runner.py starts: handle_command_line has set the run sets, the
\* cplex library path was guessed or not, the data folder holds some files.
InitBatch ==
    /\ IngestIdle
    /\ GenIdle
    /\ QueryIdle
    /\ config = [t \in TestNames |-> FALSE]
    /\ manifest = <<>>
    /\ pkg = [t \in TestNames |-> NoPackage]
    /\ dataDir \in DataDirs
    /\ bpc = "start"
    /\ bconfig \in [RunSets -> BOOLEAN]
    /\ cplex \in {"none", "nodir", "dir"}
    /\ logsDir \in BOOLEAN
    /\ bcases = <<>>
    /\ invocations = <<>>
    /\ berr = "none"

SpecBatch == InitBatch /\ [][NextBatch]_vars

\* Rows of the two tables of results.db: instances of two groups, with
\* whole seconds as times; the rows of results.db were appended by
\* update_db.py, so one table can hold a row twice.
MaxExhaustiveRows == 2
MaxOneThreadRows == 1

InstanceOfGroup == {[name |-> <<"a", ".", "t", "x", "t">>, path |-> <<".", "/", "d", "a", "t", "a", "/", "S", "e", "t", "_", "2", "1", "_", "2", "3", "4", "/">>],
                    [name |-> <<"b", ".", "t", "x", "t">>, path |-> <<".", "/", "d", "a", "t", "a", "/", "S", "e", "t", "_", "3", "2", "_", "2", "3", "4", "/">>]}

ExhaustiveRows ==
    {[instance_name |-> g.name, instance_path |-> g.path,
      number_of_discretizations |-> d, solution_time_in_seconds |-> s,
      optimality_reached |-> IF s = <<"3", "6", "0", "0">> THEN <<"F", "a", "l", "s", "e">> ELSE <<"T", "r", "u", "e">>] :
        g \in InstanceOfGroup, d \in {<<"2">>, <<"4">>}, s \in {<<"4">>, <<"3", "6", "0", "0">>}}

OneThreadRows ==
    {[instance_name |-> g.name, instance_path |-> g.path,
      number_of_discretizations |-> d, solution_time_in_seconds |-> s,
      optimality_reached |-> o] :
        g \in InstanceOfGroup, d \in {<<"2">>}, s \in {<<"3">>, <<"7">>},
        o \in {<<"T", "r", "u", "e">>, <<"F", "a", "l", "s", "e">>}}

InitQuery ==
    /\ IngestIdle
    /\ GenIdle
    /\ BatchIdle
    /\ config = [t \in TestNames |-> FALSE]
    /\ manifest = <<>>
    /\ pkg = [t \in TestNames |-> NoPackage]
    /\ dataDir = <<>>
    /\ qpc = "start"
    /\ qdb \in {[t \in QueryTables |->
                    IF t = "exhaustive_dssr_bit_based_cycles" THEN e ELSE o] :
                  e \in SeqsUpTo(ExhaustiveRows, MaxExhaustiveRows),
                  o \in SeqsUpTo(OneThreadRows, MaxOneThreadRows)}
    /\ qargs \in {[category |-> c, num_targets |-> num_targets[i],
                    num_discretizations |-> num_discretizations[j]] :
                     c \in Categories, i \in DOMAIN num_targets,
                     j \in DOMAIN num_discretizations}
    /\ qtext = <<>>
    /\ qout = NoOutput

SpecQuery == InitQuery /\ [][NextQuery]_vars

(***************************************************************************)
(* Properties of generation (script_generator.py)                          *)
(***************************************************************************)

\* The tokens a reader gets from a line of a runs file: the text of the
\* line, split at blanks.
CmdOfLine(line) == SplitWords(LineText(line))

\* The number in the '-o ./results/results_<id>.yaml' argument of a line
\* (-1 when the argument has another shape).
OutputIdOfLine(line) ==
    LET o == ArgOf(CmdOfLine(line), FlagO)
        pre == <<".", "/", "r", "e", "s", "u", "l", "t", "s", "/", "r", "e", "s", "u", "l", "t", "s", "_">>
    IN  IF /\ MatchAt(o, 1, pre)
           /\ EndsWith(o, YamlSuffix)
           /\ IsNumeral(SubSeq(o, Len(pre) + 1, Len(o) - Len(YamlSuffix)))
        THEN StrToInt(SubSeq(o, Len(pre) + 1, Len(o) - Len(YamlSuffix)))
        ELSE -1

\* The generation loop of the run type under way has ended and its runs
\* file has been closed.
RunsFileComplete == gpc = "mk_package"

\* The runs file has just been copied into the package.
RunsFileCopied == gpc = "cp_submit"

\* The variant-argument sets of a run type: its additional commands, or the
\* one set of fixed arguments.
VariantCount(test) ==
    IF IsExhaustiveType(test) /\ Len(AdditionalCmdsOf(test)) > 0
    THEN Len(AdditionalCmdsOf(test))
    ELSE 1

\* Line ln is the descriptor of case c with variant number j (from 0).
IsDescriptorOf(ln, c, test, j) ==
    LET cmd == CmdOfLine(ln)
    IN  /\ ArgOf(cmd, FlagN) = c[2]
        /\ ArgOf(cmd, FlagP) = <<".", "/", "d", "a", "t", "a", "/">> \o c[1] \o <<"/">>
        /\ IsExhaustiveType(test) /\ Len(AdditionalCmdsOf(test)) > 0
              => ArgOf(cmd, FlagB) = AdditionalCmdsOf(test)[j + 1][2]

\* C1: when the generation loop has ended, the runs file it wrote holds
\* exactly N*V lines (N cases, V variant sets; V = 1 without variant sets),
\* the run ids of its lines are 0, 1, ..., N*V-1 in line order, and the line
\* with run id i*V+j is the descriptor of case i with variant j; the copy
\* put into the package is that file.
C1_RunIdsSequential ==
    /\ RunsFileComplete =>
          LET lines == scratch[test_name].lines
              N == Len(cases)
              V == VariantCount(test_name)
          IN  /\ scratch[test_name].exists
              /\ Len(lines) = N * V
              /\ \A k \in 1..Len(lines) : OutputIdOfLine(lines[k]) = k - 1
              /\ \A i \in 0..(N - 1), j \in 0..(V - 1) :
                    IsDescriptorOf(lines[i * V + j + 1], cases[i + 1], test_name, j)
    /\ RunsFileCopied => pkg[test_name].runs = scratch[test_name]

\* C1 witness: the bang-for-buck runs file of three files, two
\* discretizations and two variant sets (12 lines, ids up to 11) has been
\* written and closed.
C1_Witness ==
    /\ gpc = "mk_package"
    /\ test_name = "bangforbuck"
    /\ Len(cases) = 6
    /\ Len(scratch["bangforbuck"].lines) = 12

\* The (folder, file) pair a line names: the folder between './data/' and
\* the closing '/' of its -p argument, the file of its -n argument.
CaseOfLine(line) ==
    LET cmd == CmdOfLine(line)
        p == ArgOf(cmd, FlagP)
    IN  <<SubSeq(p, Len(DataPrefix) + 1, Len(p) - 1), ArgOf(cmd, FlagN)>>

\* C2: in every state, each case whose descriptor line is in the runs file
\* of a package has its instance data file in that package.
C2_StagedBeforeListed ==
    \A t \in TestNames :
        \A k \in 1..Len(pkg[t].runs.lines) :
            CaseOfLine(pkg[t].runs.lines[k]) \in pkg[t].data

\* The output path of a line: its -o argument.
OutputPathOfLine(line) == ArgOf(CmdOfLine(line), FlagO)

\* The run id update_db.py parses from the result file a line's output path
\* names, once that file lies in the results folder.
IngestedRunIdOfLine(line) ==
    RunIdOfPath(ResultPathOf(Basename(OutputPathOfLine(line))))

\* C7: whenever the generator writes a line (any run type), the run id that
\* ingestion parses from the file name of the line's output path is the
\* counter value the generator gave the line, and the output path of the
\* line differs from that of every line written to the runs file before.
C7_RunIdRecoverable ==
    [][(gpc = "write" /\ ci <= Len(cases)) =>
          LET written == scratch'[test_name].lines
              new == written[Len(written)]
          IN  /\ IngestedRunIdOfLine(new) = counter
              /\ \A k \in 1..(Len(written) - 1) :
                    OutputPathOfLine(written[k]) # OutputPathOfLine(new)]_vars

\* C7 witness: a manifest run type has written its two lines after the
\* bang-for-buck package got its twelve (ids of one and of two digits).
C7_Witness ==
    /\ gpc = "write"
    /\ test_name = "dominance"
    /\ Len(scratch["dominance"].lines) = 2
    /\ Len(pkg["bangforbuck"].runs.lines) = 12

\* Discovery for a run type finds no case: no file with the instance
\* extension in any group that is not excluded (directory source), or no
\* data row (manifest source).
DiscoveryFindsNothing(test) ==
    IF IsExhaustiveType(test)
    THEN \A k \in 1..Len(dataDir) :
             \/ Contains(dataDir[k].folder, <<"_", "1", "0", "0", "_">>)
             \/ Contains(dataDir[k].folder, <<"_", "1", "0", "2", "_">>)
             \/ \A f \in Range(dataDir[k].files) : ~EndsWith(f, <<".", "t", "x", "t">>)
    ELSE Len(manifest) = 0

\* C9: a selected run type whose discovery finds no case never gets a runs
\* file nor a package, and once Controller.run has come to it the
\* generation has failed with the ScriptException of the empty case set and
\* goes no further.
C9_EmptyCaseSetFails ==
    \A s \in 1..Len(RunTypes) :
        (config[RunTypes[s]] /\ DiscoveryFindsNothing(RunTypes[s])) =>
            /\ ~scratch[RunTypes[s]].exists
            /\ pkg[RunTypes[s]] = NoPackage
            /\ stage <= s
            /\ (stage = s /\ gpc # "select") =>
                   (gpc = "failed" /\ gerr = "ScriptException")

\* C9 witness: the bang-for-buck package is complete and the next run type,
\* read from a manifest without data rows, has failed.
C9_Witness ==
    /\ gpc = "failed"
    /\ gerr = "ScriptException"
    /\ stage = 2
    /\ manifest = <<>>
    /\ pkg["bangforbuck"].results
    /\ pkg["dominance"] = NoPackage

\* C10: the case list discovery returned holds no two equal
\* (group, file, discretization) entries.
C10_CasesDistinct ==
    \A i, j \in 1..Len(cases) : i # j => cases[i] # cases[j]

(***************************************************************************)
(* Properties of ingestion (update_db.py)                                  *)
(***************************************************************************)

\* The column set of a table minus result_id.
DataColumns(tbl) == Range(tbl.cols) \ {result_id_col}

\* The document under the insert loop, when it is a result document.
AtResultDocument ==
    /\ ipc = "insert"
    /\ idx <= Len(listing)
    /\ IsYaml(listing[idx])

\* C3: when ingestion processes a document whose key set differs from the
\* table's column set minus result_id, the run ends in an error and the
\* table has the rows it had before.
C3_MismatchRejected ==
    [][(/\ AtResultDocument
        /\ DOMAIN listing[idx].doc # DataColumns(sess[table_name]))
       => (/\ ierr' # "none"
           /\ sess'[table_name].rows = sess[table_name].rows)]_vars

\* The text stored for column k of a row built from file f.
ExpectedText(f, k) ==
    IF k = result_id_col
    THEN IntToStr(RunIdOfPath(ResultPathOf(f.name)))
    ELSE PyStr(f.doc[k])

\* C4: every stored row of a results table comes from a document whose key
\* set is the table's column set minus result_id, and holds under each
\* column the document's value for that key (the run id under result_id).
C4_RowsMatchColumns ==
    \A t \in TableNames :
        \A r \in 1..Len(store[t].rows) :
            LET row == store[t].rows[r]
            IN  /\ DOMAIN row.src.doc = DataColumns(store[t])
                /\ \A i \in 1..Len(store[t].cols) :
                      row.vals[i] = ExpectedText(row.src, store[t].cols[i])

\* The first loop of the run has been passed with a document found.
TableStepDone ==
    \/ ipc \in {"insert", "args", "args_rows", "commit", "close"}
    \/ (ipc = "failed" /\ ierr # "ScriptException")

\* Sequence p is the beginning of sequence q.
IsPrefix(p, q) == Len(p) <= Len(q) /\ SubSeq(q, 1, Len(p)) = p

\* C5: in a run that found the table missing, the table has as columns the
\* keys of the first result document of the listing plus result_id, in
\* ascending order, and that document is the one whose row is inserted
\* first; in a run that found the table, its columns stay what they were and
\* its rows are only added to.
C5_SchemaFromFirstDocument ==
    TableStepDone =>
        LET tbl == sess[table_name]
            was == startStore[table_name]
        IN  IF ~was.exists
            THEN \E i \in 1..Len(listing) :
                    /\ IsYaml(listing[i])
                    /\ \A j \in 1..(i - 1) : ~IsYaml(listing[j])
                    /\ tbl.exists
                    /\ Range(tbl.cols) = DOMAIN listing[i].doc \cup {result_id_col}
                    /\ Len(tbl.cols) = Cardinality(Range(tbl.cols))
                    /\ \A a, b \in 1..Len(tbl.cols) :
                          a < b => NameRank(tbl.cols[a]) < NameRank(tbl.cols[b])
                    /\ Len(tbl.rows) > 0 => tbl.rows[1].src = listing[i]
            ELSE /\ tbl.exists
                 /\ tbl.cols = was.cols
                 /\ IsPrefix(was.rows, tbl.rows)

\* C5 witness: a run that found no table has created it from the first
\* document of its folder and has inserted the rows of two documents whose
\* key sets differ; the rows are about to be committed.
C5_Witness ==
    /\ ipc = "commit"
    /\ ~startStore[table_name].exists
    /\ Len(sess[table_name].rows) = 2
    /\ DOMAIN listing[1].doc # DOMAIN listing[2].doc

\* The result documents of the listing, in listing order.
YamlFiles(L) == SelectSeq(L, IsYaml)

\* The rows a run appends for the documents of its listing.
RowsOfDocuments(L) ==
    [k \in 1..Len(YamlFiles(L)) |->
        [vals |-> [i \in 1..(Cardinality(DOMAIN YamlFiles(L)[k].doc) + 1) |->
                      ExpectedText(YamlFiles(L)[k],
                                   SortedNames(DOMAIN YamlFiles(L)[k].doc
                                               \cup {result_id_col})[i])],
         src |-> YamlFiles(L)[k]]]

\* The run works on a table that existed when it started and every result
\* document of its folder has the table's key set.
MatchingRun ==
    /\ ipc \notin {"idle", "connect", "create"}
    /\ startStore[table_name].exists
    /\ Len(YamlFiles(listing)) >= 1
    /\ \A k \in 1..Len(YamlFiles(listing)) :
          DOMAIN YamlFiles(listing)[k].doc = DataColumns(startStore[table_name])

\* C6: a run over k >= 1 documents whose key sets match the existing table
\* does not fail in its insert loop, and when the loop has ended the table
\* holds the rows it had, unchanged, followed by one row per document, each
\* with the run id of its file name under result_id.
C6_AppendsOneRowPerDocument ==
    MatchingRun =>
        /\ ~(ipc = "failed" /\ aidx = 0 /\ ierr = "OperationalError")
        /\ ipc \in {"args", "commit"} =>
              sess[table_name].rows =
                  startStore[table_name].rows \o RowsOfDocuments(listing)

\* The results folder of the run holds no file ending in .yaml.
NoResultDocument == \A i \in 1..Len(listing) : ~EndsWith(listing[i].name, <<".", "y", "a", "m", "l">>)

\* C8: a run over a results folder without result document fails with the
\* ScriptException "no yaml file found in results folder" once it has looked
\* for one; it creates no table and inserts no row: the tables are what they
\* were when the run started, for the run and in the database file.
C8_NoResultsFound ==
    /\ (ipc \notin {"idle", "connect", "create"} /\ NoResultDocument) =>
          /\ ipc = "failed"
          /\ ierr = "ScriptException"
          /\ sess = startStore
          /\ store = startStore
    /\ ierr = "ScriptException" => (store = startStore /\ sess = startStore)

\* C8 witness: the second run, on a table the first run filled, finds a
\* folder that holds a log file only; it has failed.
C8_Witness ==
    /\ ipc = "failed"
    /\ ierr = "ScriptException"
    /\ Len(listing) = 1
    /\ runs = 2
    /\ Len(store[table_name].rows) > 0

(***************************************************************************)
(* Properties of discovery, of the driver and of the generation order      *)
(***************************************************************************)

\* The (group, file) pairs of a data folder.
PairsOfDir(dir) ==
    {<<dir[k].folder, f>> : k \in 1..Len(dir), f \in UNION {Range(dir[j].files) : j \in 1..Len(dir)}}
    \cap UNION {{<<dir[k].folder, f>> : f \in Range(dir[k].files)} : k \in 1..Len(dir)}

\* The pairs directory discovery has to return for the exclusion substrings
\* excl: the files with the instance extension of the groups whose name
\* holds none of the substrings.
PairsToDiscover(dir, excl) ==
    {p \in PairsOfDir(dir) :
        /\ EndsWith(p[2], <<".", "t", "x", "t">>)
        /\ \A x \in excl : ~Contains(p[1], x)}

\* C11: directory discovery returns a (group, file) pair if and only if the
\* file has the instance extension and the group matches none of the
\* exclusion substrings: so for the discovery of script_generator.py (its
\* substrings are _100_ and _102_) and for the walk of batch_runner.py
\* (which has none), once it has run.
C11_DiscoveryExact ==
    /\ {<<c[1], c[2]>> : c \in Range(CollectExhaustiveCases(dataDir, DiscretizationsOf("exhaustive")))}
          = PairsToDiscover(dataDir, {<<"_", "1", "0", "0", "_">>, <<"_", "1", "0", "2", "_">>})
    /\ bpc \in {"check", "done"} =>
          Range(bcases) = {CasePath(p[1], p[2]) : p \in PairsToDiscover(dataDir, {})}

\* C12: when a run type that reads the manifest has written its runs file,
\* the file has one line per data row, in manifest order, and line i (from
\* 0) has run id i, the file of row i as its instance, the group of row i,
\* unchanged, as its instance path and the discretization of row i after -d.
C12_ManifestRowsKept ==
    (RunsFileComplete /\ ~IsExhaustiveType(test_name)) =>
        LET lines == scratch[test_name].lines
        IN  /\ Len(lines) = Len(manifest)
            /\ \A i \in 1..Len(lines) :
                  /\ OutputIdOfLine(lines[i]) = i - 1
                  /\ ArgOf(CmdOfLine(lines[i]), FlagN) = manifest[i][2]
                  /\ ArgOf(CmdOfLine(lines[i]), FlagP) = manifest[i][1]
                  /\ ArgOf(CmdOfLine(lines[i]), FlagD) = manifest[i][3]

\* The generation of run type t is under way (or has failed under way).
UnderWay(t) ==
    /\ stage \in 1..Len(RunTypes)
    /\ RunTypes[stage] = t
    /\ gpc \notin {"start", "select", "done"}

\* The directory tree of the package of t has been created.
TreeCreated(t) ==
    pkg[t].exists /\ pkg[t].dataRoot /\ pkg[t].output /\ pkg[t].results

\* Every instance data file the cases refer to is in the package of t.
DataStaged(t) == FolderAndFileNames(cases) \subseteq pkg[t].data

\* C14: the side effects of the generation of a run type come in the order
\* tree created, data files copied, solver artifact copied, lines in the
\* run-file of the package, scratch run-file removed: in every state, a
\* data file in the package means the tree has been created, the artifact in
\* the package means all data files are there, a run-file in the package
\* means the artifact is there, and the scratch file is gone only when the
\* package has the run-file.
C14_SideEffectOrder ==
    \A t \in TestNames :
        UnderWay(t) =>
            /\ pkg[t].data # {} => TreeCreated(t)
            /\ pkg[t].jar => DataStaged(t)
            /\ pkg[t].runs.exists => pkg[t].jar
            /\ (Len(cases) > 0 /\ gpc # "open" /\ ~scratch[t].exists)
                  => pkg[t].runs.exists

(***************************************************************************)
(* Further properties of ingestion (update_db.py)                          *)
(***************************************************************************)

\* Field lists create_table is called with: those of the documents and
\* that of the args table.
FieldLists == {ColNamesOf(d) : d \in Docs} \cup {<<result_id_col, "bfb">>}

\* C15: in every step of ingestion, creating a table that exists, with any
\* field list, gives the database back as it is; the creation steps of a
\* run (results table, args table) raise nothing and leave an existing
\* table's columns and rows as they are; and no step drops a table of the
\* database file, changes its column list or touches the rows it has.
C15_CreateKeepsExistingTable ==
    [][/\ \A t \in AllTables, fields \in FieldLists :
             table_exists(sess, t) => create_table(sess, t, fields) = sess
       /\ (ipc = "create" /\ FirstYamlIndex(listing) # 0
             /\ table_exists(sess, table_name))
             => (ierr' = "none" /\ sess'[table_name] = sess[table_name])
       /\ (ipc = "args" /\ table_exists(sess, ArgsTableName(table_name)))
             => (sess'[ArgsTableName(table_name)].cols
                    = sess[ArgsTableName(table_name)].cols
                 /\ IsPrefix(sess[ArgsTableName(table_name)].rows,
                             sess'[ArgsTableName(table_name)].rows))
       /\ \A t \in AllTables :
             store[t].exists =>
                 /\ store'[t].exists
                 /\ store'[t].cols = store[t].cols
                 /\ IsPrefix(store[t].rows, store'[t].rows)]_vars

\* C15 witness: the second run works on a table that has rows, its first
\* document has another field list than the table, and the creation step is
\* done.
C15_Witness ==
    /\ ipc = "insert"
    /\ idx = 1
    /\ runs = 2
    /\ Len(startStore[table_name].rows) > 0
    /\ FirstLoopFields(listing) # sess[table_name].cols

(***************************************************************************)
(* Further properties of generation (script_generator.py)                  *)
(***************************************************************************)

\* Controller.run is inside the generation of a run type: between the
\* opening of its runs file and the last step of its package.
Expanding ==
    gpc \in {"open", "write", "mk_package", "cp_jar", "cp_runs", "cp_submit",
             "cp_slurm", "rm_scratch", "mk_data", "mk_case_dir", "cp_case",
             "mk_results"}

Reverse(q) == [k \in 1..Len(q) |-> q[Len(q) + 1 - k]]

\* The data folder with the same contents, listed by the file system in the
\* opposite order: folders and the files of each folder.
Relisted(dir) ==
    Reverse([k \in 1..Len(dir) |-> DirEntry(dir[k].folder, Reverse(dir[k].files))])

\* C17: the runs file a generation has written is the one a generation from
\* the same inputs writes when the file system lists the same folders and
\* files in another order (here: the opposite one); a runs file read from
\* the manifest is the one the manifest's rows give.
C17_ListingOrderIrrelevant ==
    RunsFileComplete =>
        IF IsExhaustiveType(test_name)
        THEN scratch[test_name].lines =
                ExhaustiveLinesFrom(
                    CollectExhaustiveCases(Relisted(dataDir),
                                           DiscretizationsOf(test_name)),
                    AdditionalCmdsOf(test_name), 0)
        ELSE scratch[test_name].lines =
                [k \in 1..Len(manifest) |->
                    NonExhaustiveCmd(CollectCasesFromFile(manifest)[k], k - 1,
                                     CmdArgsOf(test_name))]

(***************************************************************************)
(* The connection of an ingestion run                                      *)
(***************************************************************************)

\* C18: an ingestion run that has ended, with or without an error, has its
\* database connection closed.
C18_ConnectionClosedOnEveryPath ==
    (ipc = "idle" /\ runs > 0) => conn = "closed"

(***************************************************************************)
(* Properties of the queries (final-results)                               *)
(***************************************************************************)

\* The group of a row: the number of targets its path names.
RowGroup(row) == StrToInt(SubSeq(row.instance_path, 12, 13))

\* The rows of the table of the count query that have the category, the
\* discretization and the group of the arguments.
RowsCounted(a) ==
    {i \in 1..Len(qdb["exhaustive_dssr_bit_based_cycles"]) :
        LET row == qdb["exhaustive_dssr_bit_based_cycles"][i]
        IN  /\ StrToInt(row.number_of_discretizations) = a.num_discretizations
            /\ RowGroup(row) = a.num_targets
            /\ \/ a.category = "optimal" /\ Units(row.solution_time_in_seconds) < 3600
               \/ a.category = "timed-out" /\ Units(row.solution_time_in_seconds) >= 3600}

\* C19: for every category among optimal, infeasible and timed-out, every
\* discretization and every group, the count query is complete and gives
\* the number of rows of that category, discretization and group.
C19_CountQueryComplete ==
    qpc \in {"counted", "failed"} =>
        /\ qout.kind = "count"
        /\ qout.count = Cardinality(RowsCounted(qargs))

\* The (instance, discretization) pairs that both tables hold and whose
\* row of the first table passes the filter of the comparison query.
PairsCompared ==
    LET q == generate_concurrency_query
    IN  {<<StripTxt(l.instance_name), StrToInt(l.number_of_discretizations)>> :
            l \in {qdb[q.from][i] : i \in
                     {i \in 1..Len(qdb[q.from]) :
                         /\ qdb[q.from][i].optimality_reached = q.optimality_reached
                         /\ Units(qdb[q.from][i].solution_time_in_seconds)
                                > Units(q.solution_time_above)
                         /\ \E j \in 1..Len(qdb[q.join]) :
                                \A col \in q.on : qdb[q.from][i][col] = qdb[q.join][j][col]}}}

\* The rows of the comparison are the pairs compared, one row for each.
OneRowPerPair ==
    /\ Len(qout.rows) = Cardinality(PairsCompared)
    /\ \A k \in 1..Len(qout.rows) :
           <<qout.rows[k].instance_name, qout.rows[k].num_discretizations>> \in PairsCompared

\* The improvement of a row is the fraction (baseline - variant) / baseline.
RelativeImprovement(row) ==
    row.improvement_factor.num * row.one_thread_time
        = (row.one_thread_time - row.concurrent_time) * row.improvement_factor.den

\* C20: the comparison gives one row for every (instance, discretization)
\* pair that both tables hold and that passes the filter, and the
\* improvement of each row is (baseline - variant) / baseline.
C20_ComparisonRows ==
    qpc = "done" =>
        /\ OneRowPerPair
        /\ \A k \in 1..Len(qout.rows) : RelativeImprovement(qout.rows[k])

(***************************************************************************)
(* Properties of the execution driver (batch_runner.py)                    *)
(***************************************************************************)

\* C21: with a run set selected, the driver never finishes successfully
\* without having started a solver invocation.
C21_FinishesOnlyAfterInvocations ==
    (bpc = "done" /\ \E r \in RunSets : bconfig[r]) => Len(invocations) > 0

(***************************************************************************)
(* Properties of the stored rows (update_db.py)                            *)
(***************************************************************************)

\* The value a row holds under the column result_id.
ResultIdOfRow(tbl, row) ==
    row.vals[CHOOSE i \in 1..Len(tbl.cols) : tbl.cols[i] = result_id_col]

\* C22: after any sequence of ingestion runs, no two stored rows of a
\* results table have the same result_id.
C22_ResultIdsDistinct ==
    \A t \in TableNames :
        \A i, j \in 1..Len(store[t].rows) :
            i # j => ResultIdOfRow(store[t], store[t].rows[i])
                         # ResultIdOfRow(store[t], store[t].rows[j])

\* C23: the rows of a run reach the store only at the commit that follows
\* the last insert; a run that stops with an error leaves the stored rows
\* of every table as they were before the run.
C23_RowsPersistAtCommitOnly ==
    \A t \in AllTables :
        /\ (runs > 0 /\ ipc \notin {"close", "idle"}) =>
               store[t].rows = startStore[t].rows
        /\ (ipc = "idle" /\ ierr # "none") =>
               store[t].rows = startStore[t].rows

\* A run has stopped with an error at a document after rows of earlier
\* documents were inserted.
C23_Witness ==
    /\ ipc = "failed"
    /\ ierr = "OperationalError"
    /\ Len(sess[table_name].rows) > Len(store[table_name].rows)

\* The args row the k-th line of the generated bang-for-buck runs file
\* stands for: run id k - 1, bfb 1 for an even run id and 0 for an odd one.
ArgsRowOfLine(k) ==
    <<IntToStr(k - 1), IF (k - 1) % 2 = 0 THEN <<"1">> ELSE <<"0">>>>

\* The args rows of the run are one per line of the runs file, in its order.
ArgsRowsPerLine ==
    LET was == startStore[ArgsTableName(table_name)].rows
        now == sess[ArgsTableName(table_name)].rows
    IN  /\ Len(now) = Len(was) + Len(BfbRunsFile.lines)
        /\ \A k \in 1..Len(BfbRunsFile.lines) :
               /\ now[Len(was) + k].vals = ArgsRowOfLine(k)
               /\ IntToStr(IngestedRunIdOfLine(BfbRunsFile.lines[k])) = now[Len(was) + k].vals[1]

\* Every stored row of the results table has exactly one stored args row of
\* its result_id.
OneArgsRowPerResult ==
    LET res == store[table_name]
        args == store[ArgsTableName(table_name)]
    IN  \A i \in 1..Len(res.rows) :
            Cardinality({k \in 1..Len(args.rows) :
                ResultIdOfRow(args, args.rows[k]) = ResultIdOfRow(res, res.rows[i])}) = 1

\* C24: a bang-for-buck ingestion run gives the args table one row per line
\* of the runs file, holding the line's run id and the value after its -b
\* flag; after one run every row of the results table has exactly one args
\* row of its result_id.
C24_ArgsRowsMatchRunsFile ==
    /\ (table_name = "bangforbuck" /\ ipc = "commit") => ArgsRowsPerLine
    /\ (table_name = "bangforbuck" /\ runs = 1 /\ ipc = "idle" /\ ierr = "none") =>
           OneArgsRowPerResult

=============================================================================
